---- MODULE Spec2Model ----
(***************************************************************************)
(* The data-protection keychain backend of the keyring package.           *)
(*                                                                         *)
(* Two variants of the backend live in the repository:                     *)
(*   "rich"    src/data_protection_keychain.go  (access-control flags and  *)
(*             a named protection constraint, validated at construction)   *)
(*   "legacy"  src/unnamed/part_000             (a boolean "accessible     *)
(*             when unlocked" and a fixed biometric flag)                  *)
(* Both share the item lifecycle (Get, GetMetadata, Set, Remove, Keys).    *)
(*                                                                         *)
(* The platform store (gokeychain.QueryItem / AddItem / UpdateItem /       *)
(* DeleteItem) is the environment: a set of attribute-tagged records with  *)
(* the verbs of the external interface.                                    *)
(***************************************************************************)
EXTENDS Integers, Sequences, FiniteSets, TLC

VARIABLES
    store,      \* the platform store: the set of generic-password records
    kcs,        \* the constructed backends (DataProtectionKeychain structs)
    cfgs,       \* the Config each backend was opened with
    pc,         \* per caller: where it stands inside Set
    cur,        \* per caller: the locals of the Set call in progress
    last,       \* the last completed call, if any (a sequence of at most one)
    nops,       \* number of calls begun
    opened      \* the outcome of the last call of the opener, if any

vars == <<store, kcs, cfgs, pc, cur, last, nops, opened>>

-----------------------------------------------------------------------------
(* Bounds *)

MaxCalls == 3

Variants == {"rich", "legacy"}
KeyNames == {"a", "b"}
Callers == {"t1", "t2"}
Backends == {"k1", "k2"}

-----------------------------------------------------------------------------
(* Errors.  nil is Go's nil error.                                         *)

nil == "nil"
ErrKeyNotFound == "ErrKeyNotFound"
ErrorItemNotFound == "gokeychain.ErrorItemNotFound"
ErrorDuplicateItem == "gokeychain.ErrorDuplicateItem"
\* any other failure of the platform store
ErrorOpaque == "gokeychain.Error(opaque)"
\* the failure of Item.SetAuthenticationContext
ErrorAuthContext == "gokeychain.SetAuthenticationContext failed"

ErrNotAvailable == "SecAccessControl is not available on this platform"
ErrReuseDuration == "BioMetricsAllowableReuseDuration must be greater than 0"
ErrDeprecatedConstraint ==
    "AccessibleAlways and AccessibleAccessibleAlwaysThisDeviceOnly have been deprecated, use AccessibleWhenUnlockedThisDeviceOnly instead"
ErrInvalidConstraint(constraint) == "invalid access constraint: " \o constraint
ErrInvalidFlag(flagString) == "invalid access control flag: " \o flagString
ErrNoResults == "no results"
ErrQueryFailed(err) == "failed to query keychain: " \o err
ErrUpdateFailed(err) ==
    "failed to update item in data protection keychain: " \o err
ErrDeleteFailed(err) ==
    "failed to delete item from data protection keychain: " \o err

-----------------------------------------------------------------------------
(* Policy mapper *)

\* gokeychain.Accessible
AccessibleDefault == 0
AccessibleWhenUnlocked == 1
AccessibleAfterFirstUnlock == 2
AccessibleWhenPasscodeSetThisDeviceOnly == 4
AccessibleWhenUnlockedThisDeviceOnly == 5
AccessibleAfterFirstUnlockThisDeviceOnly == 6

\* gokeychain.AccessControlFlags: a flag set is the set of its bit positions,
\* and bitwise OR is set union.
AccessControlFlagsUserPresence == {0}
AccessControlFlagsBiometryAny == {1}
AccessControlFlagsBiometryCurrentSet == {3}
AccessControlFlagsDevicePasscode == {4}
AccessControlFlagsWatch == {5}
AccessControlFlagsOr == {14}
AccessControlFlagsAnd == {15}
AccessControlFlagsPrivateKeyUsage == {30}
AccessControlFlagsApplicationPassword == {31}
NoFlags == {}

flagMap ==
    [UserPresence |-> AccessControlFlagsUserPresence,
     BiometryAny |-> AccessControlFlagsBiometryAny,
     BiometryCurrentSet |-> AccessControlFlagsBiometryCurrentSet,
     DevicePasscode |-> AccessControlFlagsDevicePasscode,
     Watch |-> AccessControlFlagsWatch,
     Or |-> AccessControlFlagsOr,
     And |-> AccessControlFlagsAnd,
     PrivateKeyUsage |-> AccessControlFlagsPrivateKeyUsage,
     ApplicationPassword |-> AccessControlFlagsApplicationPassword]

\* The loop of mapStringsToFlags from position i on, flags accumulated so far.
RECURSIVE mapStringsLoop(_, _, _)
mapStringsLoop(strings, i, flags) ==
    IF i > Len(strings)
    THEN [val |-> flags, err |-> nil]
    ELSE IF strings[i] \in DOMAIN flagMap
         THEN mapStringsLoop(strings, i + 1, flags \cup flagMap[strings[i]])
         ELSE [val |-> NoFlags, err |-> ErrInvalidFlag(strings[i])]

\* the loop returning, at an unknown name, the flags accumulated before it
RECURSIVE mapStringsLoopPartial(_, _, _)
mapStringsLoopPartial(strings, i, flags) ==
    IF i > Len(strings)
    THEN [val |-> flags, err |-> nil]
    ELSE IF strings[i] \in DOMAIN flagMap
         THEN mapStringsLoopPartial(strings, i + 1, flags \cup flagMap[strings[i]])
         ELSE [val |-> flags, err |-> ErrInvalidFlag(strings[i])]

mapStringsToFlagsPartial(strings) == mapStringsLoopPartial(strings, 1, NoFlags)
mapStringsToFlags(strings) == mapStringsLoop(strings, 1, NoFlags)

\* A Go switch does not fall through: the empty case
\* "AccessibleAccessibleAlwaysThisDeviceOnly" leaves the switch and reaches
\* the final "return 0, nil".
mapConstraint(constraint) ==
    CASE constraint = "AccessibleWhenUnlocked" ->
            [val |-> AccessibleWhenUnlocked, err |-> nil]
      [] constraint = "AccessibleAfterFirstUnlock" ->
            [val |-> AccessibleAfterFirstUnlock, err |-> nil]
      [] constraint = "AccessibleAfterFirstUnlockThisDeviceOnly" ->
            [val |-> AccessibleAfterFirstUnlockThisDeviceOnly, err |-> nil]
      [] constraint = "AccessibleWhenPasscodeSetThisDeviceOnly" ->
            [val |-> AccessibleWhenPasscodeSetThisDeviceOnly, err |-> nil]
      [] constraint = "AccessibleWhenUnlockedThisDeviceOnly" ->
            [val |-> AccessibleWhenUnlockedThisDeviceOnly, err |-> nil]
      [] constraint = "AccessibleAccessibleAlwaysThisDeviceOnly" ->
            [val |-> 0, err |-> nil]
      [] constraint = "AccessibleAlways" ->
            [val |-> 0, err |-> ErrDeprecatedConstraint]
      [] constraint = "" ->
            [val |-> AccessibleDefault, err |-> nil]
      [] OTHER ->
            [val |-> 0, err |-> ErrInvalidConstraint(constraint)]

-----------------------------------------------------------------------------
(* Construction *)

\* The zero value of *DataProtectionKeychain: the opener returned no backend.
NoBackend ==
    [variant |-> "none", service |-> "", authenticationContext |-> <<>>,
     isSynchronizable |-> FALSE, accessControlFlags |-> NoFlags,
     accessConstraint |-> 0, isAccessibleWhenUnlocked |-> FALSE]

\* gokeychain.CreateAuthenticationContext(authCtxOptions); ctx names the
\* fresh context object it returns.
CreateAuthenticationContext(ctx, duration) ==
    <<[id |-> ctx, AllowableReuseDuration |-> duration]>>

\* authCtxOptions.AllowableReuseDuration after the first if of the opener
reuseDuration(cfg) ==
    IF cfg.BioMetricsAllowableReuseDuration > 0
    THEN cfg.BioMetricsAllowableReuseDuration
    ELSE 0

\* isSynchronizable is a field of the struct that no opener assigns.
openerRich(cfg, canUse, ctx) ==
    LET authCtx == CreateAuthenticationContext(ctx, reuseDuration(cfg))
        c == mapConstraint(cfg.KeychainAccessConstraint)
        f == mapStringsToFlags(cfg.KeychainAccessControl)
        created == <<"CanUseDataProtectionKeychain", "CreateAuthenticationContext">>
    IN  IF ~canUse
        THEN [kc |-> NoBackend, err |-> ErrNotAvailable,
              calls |-> <<"CanUseDataProtectionKeychain">>]
        ELSE IF cfg.BioMetricsAllowableReuseDuration < 0
        THEN [kc |-> NoBackend, err |-> ErrReuseDuration,
              calls |-> <<"CanUseDataProtectionKeychain">>]
        ELSE IF c.err # nil
        THEN [kc |-> NoBackend, err |-> c.err, calls |-> created]
        ELSE IF f.err # nil
        THEN [kc |-> NoBackend, err |-> f.err, calls |-> created]
        ELSE [kc |-> [variant |-> "rich",
                      service |-> cfg.ServiceName,
                      authenticationContext |-> authCtx,
                      isSynchronizable |-> FALSE,
                      accessControlFlags |-> f.val,
                      accessConstraint |->
                          IF c.val = 0
                          THEN AccessibleWhenUnlockedThisDeviceOnly
                          ELSE c.val,
                      isAccessibleWhenUnlocked |-> FALSE],
              err |-> nil,
              calls |-> created]

openerLegacy(cfg, canUse, ctx) ==
    [kc |-> [variant |-> "legacy",
             service |-> cfg.ServiceName,
             authenticationContext |->
                 CreateAuthenticationContext(ctx, reuseDuration(cfg)),
             isSynchronizable |-> FALSE,
             accessControlFlags |-> NoFlags,
             accessConstraint |-> 0,
             isAccessibleWhenUnlocked |-> cfg.KeychainAccessibleWhenUnlocked],
     err |-> nil,
     calls |-> <<"CreateAuthenticationContext">>]

opener(variant, cfg, canUse, ctx) ==
    IF variant = "rich"
    THEN openerRich(cfg, canUse, ctx)
    ELSE openerLegacy(cfg, canUse, ctx)

-----------------------------------------------------------------------------
(* The platform store: the verbs of gokeychain.  Each verb is a set of the *)
(* outcomes the store can produce; the caller's action picks one.          *)

NoData == ""
NoContext == <<>>

Matching(st, service) == {r \in st : r.Service = service}
MatchingAccount(st, service, account) ==
    {r \in st : r.Service = service /\ r.Account = account}

\* All the orders in which the store can list the records of S.
Orderings(S) ==
    {s \in [1..Cardinality(S) -> S] : \A i, j \in DOMAIN s : i # j => s[i] # s[j]}

\* What a query returns of record r.
QueryResult(r, returnData) ==
    [Service |-> r.Service, Account |-> r.Account, Label |-> r.Label,
     Description |-> r.Description,
     Data |-> IF returnData THEN r.Data ELSE NoData,
     ModificationDate |-> r.ModificationDate]

\* query: [Service, Account, HasAccount, MatchLimit, ReturnData, Context]
QueryItem(st, query) ==
    LET found == IF query.HasAccount
                 THEN MatchingAccount(st, query.Service, query.Account)
                 ELSE Matching(st, query.Service)
        listed == IF query.MatchLimit = "One"
                  THEN {<<r>> : r \in found}
                  ELSE Orderings(found)
    IN  {[results |-> <<>>, err |-> ErrorOpaque]}
        \cup
        IF found = {}
        THEN {[results |-> <<>>, err |-> nil],
              [results |-> <<>>, err |-> ErrorItemNotFound]}
        ELSE {[results |-> [i \in DOMAIN s |-> QueryResult(s[i], query.ReturnData)],
               err |-> nil] : s \in listed}

\* ModificationDate counts the writes of the record: the store stamps a record
\* when it adds it and again whenever it updates it.
AddItem(st, kcItem) ==
    {[store |-> st, err |-> ErrorOpaque]}
    \cup
    IF MatchingAccount(st, kcItem.Service, kcItem.Account) # {}
    THEN {[store |-> st, err |-> ErrorDuplicateItem]}
    ELSE {[store |-> st \cup {[kcItem EXCEPT !.ModificationDate = 1]},
           err |-> nil]}

\* updateItem holds the attributes to replace; the others keep their values.
UpdateItem(st, queryItem, updateItem) ==
    LET found == MatchingAccount(st, queryItem.Service, queryItem.Account)
    IN  {[store |-> st, err |-> ErrorOpaque]}
        \cup
        IF found = {}
        THEN {[store |-> st, err |-> ErrorItemNotFound]}
        ELSE {[store |-> (st \ found) \cup
                   {[f \in DOMAIN r |->
                        IF f \in DOMAIN updateItem THEN updateItem[f]
                        ELSE IF f = "ModificationDate" THEN r[f] + 1
                        ELSE r[f]] : r \in found},
               err |-> nil]}

DeleteItem(st, item) ==
    LET found == MatchingAccount(st, item.Service, item.Account)
    IN  {[store |-> st, err |-> ErrorOpaque]}
        \cup
        IF found = {}
        THEN {[store |-> st, err |-> ErrorItemNotFound]}
        ELSE {[store |-> st \ found, err |-> nil]}

\* Item.SetAuthenticationContext: the query with the context attached, or
\* an error and the query as it was.
SetAuthenticationContext(query, ctx) ==
    {[query |-> [query EXCEPT !.Context = ctx], err |-> nil],
     [query |-> query, err |-> ErrorAuthContext]}

\* One entry of the log of the native calls a handler made.
NativeCall(verb, service, account, returnData, ctx, err, n) ==
    [verb |-> verb, Service |-> service, Account |-> account,
     ReturnData |-> returnData, Context |-> ctx, err |-> err, n |-> n]

-----------------------------------------------------------------------------
(* Items and the values the handlers return *)

Items ==
    {[Key |-> "a", Data |-> "d1", Label |-> "l1", Description |-> "x1",
      KeychainNotSynchronizable |-> FALSE],
     [Key |-> "a", Data |-> "d2", Label |-> "l2", Description |-> "x2",
      KeychainNotSynchronizable |-> TRUE],
     [Key |-> "b", Data |-> "d1", Label |-> "l2", Description |-> "x1",
      KeychainNotSynchronizable |-> FALSE]}

\* Item{}
NoItem ==
    [Key |-> "", Data |-> NoData, Label |-> "", Description |-> "",
     KeychainNotSynchronizable |-> FALSE]

\* What a handler returns besides its error: the Item of Get (a sequence of
\* one), the *Item (nil is the empty sequence) and ModificationTime of
\* GetMetadata, the account names of Keys.
Val(item, modtime, keys) == [item |-> item, modtime |-> modtime, keys |-> keys]
NoVal == Val(<<>>, 0, <<>>)

\* The error check of SetAuthenticationContext's result: the legacy variant
\* drops the returned error and goes on with the query.
ChecksAttach(k) == k.variant = "rich"

-----------------------------------------------------------------------------
(* Get *)

GetQuery(k, key) ==
    [Service |-> k.service, Account |-> key, HasAccount |-> TRUE,
     MatchLimit |-> "One", ReturnData |-> TRUE, Context |-> NoContext]

\* err == gokeychain.ErrorItemNotFound || len(results) == 0
IsNotFound(q) == q.err = ErrorItemNotFound \/ Len(q.results) = 0

\* Get from the result q of its query on
GetReturn(key, q) ==
    IF IsNotFound(q)
    THEN [err |-> ErrKeyNotFound, val |-> Val(<<NoItem>>, 0, <<>>)]
    ELSE IF q.err # nil
    THEN [err |-> q.err, val |-> Val(<<NoItem>>, 0, <<>>)]
    ELSE [err |-> nil,
          val |-> Val(<<[Key |-> key,
                         Data |-> q.results[1].Data,
                         Label |-> q.results[1].Label,
                         Description |-> q.results[1].Description,
                         KeychainNotSynchronizable |-> FALSE]>>, 0, <<>>)]

(* GetMetadata *)

\* the query of Get used for GetMetadata: it asks for the data
GetMetadataQueryReturnData(k, key) ==
    [Service |-> k.service, Account |-> key, HasAccount |-> TRUE,
     MatchLimit |-> "One", ReturnData |-> TRUE, Context |-> NoContext]
GetMetadataQuery(k, key) ==
    [Service |-> k.service, Account |-> key, HasAccount |-> TRUE,
     MatchLimit |-> "One", ReturnData |-> FALSE, Context |-> NoContext]

GetMetadataReturn(key, q) ==
    IF IsNotFound(q)
    THEN [err |-> ErrKeyNotFound, val |-> NoVal]
    ELSE IF q.err # nil
    THEN [err |-> q.err, val |-> NoVal]
    ELSE [err |-> nil,
          val |-> Val(<<[Key |-> key,
                         Data |-> NoData,
                         Label |-> q.results[1].Label,
                         Description |-> q.results[1].Description,
                         KeychainNotSynchronizable |-> FALSE]>>,
                      q.results[1].ModificationDate, <<>>)]

(* Set and updateItem *)

\* The record Set hands to AddItem.
SetItem(k, item) ==
    [Service |-> k.service,
     Account |-> item.Key,
     Label |-> item.Label,
     Description |-> item.Description,
     Data |-> item.Data,
     Synchronizable |-> k.isSynchronizable /\ ~item.KeychainNotSynchronizable,
     AccessControlFlags |->
         IF k.variant = "rich"
         THEN k.accessControlFlags
         ELSE AccessControlFlagsBiometryCurrentSet,
     Accessible |->
         IF k.variant = "rich"
         THEN k.accessConstraint
         ELSE IF k.isAccessibleWhenUnlocked
              THEN AccessibleWhenUnlocked
              ELSE AccessibleDefault,
     ModificationDate |-> 0]

\* err == gokeychain.ErrorDuplicateItem
IsDuplicateNever(err) == FALSE
IsDuplicate(err) == err = ErrorDuplicateItem

\* the query of updateItem without the account of the item
updateItemQueryNoAccount(k, account) ==
    [Service |-> k.service, Account |-> "", HasAccount |-> TRUE,
     MatchLimit |-> "One", ReturnData |-> FALSE, Context |-> NoContext]
updateItemQuery(k, account) ==
    [Service |-> k.service, Account |-> account, HasAccount |-> TRUE,
     MatchLimit |-> "One", ReturnData |-> FALSE, Context |-> NoContext]

\* what updateItem returns when its query found nothing
updateItemNoResultsSwallowed == nil
updateItemNoResults == ErrNoResults

\* updateItem going on to the update whenever its query returned no error
updateItemAfterQueryNoCount(q) ==
    IF q.err # nil THEN ErrQueryFailed(q.err) ELSE "go on"

\* updateItem after its query: the error it returns, or "go on" to the update
updateItemAfterQuery(q) ==
    IF q.err # nil THEN ErrQueryFailed(q.err)
    ELSE IF Len(q.results) = 0 THEN updateItemNoResults
    ELSE "go on"

\* updateItem.SetData(data)
updateItemPatchFreshItem(data) ==
    [Data |-> data, Label |-> "", Description |-> ""]
updateItemPatch(data) == [Data |-> data]

updateItemReturn(err) == IF err # nil THEN ErrUpdateFailed(err) ELSE nil

(* Remove *)

\* the delete scoped to one fixed service instead of the backend's
RemoveItemFixedService(k, key) == [Service |-> "s1", Account |-> key]
RemoveItem(k, key) == [Service |-> k.service, Account |-> key]

RemoveReturnNoSentinel(k, err) ==
    IF err # nil THEN ErrDeleteFailed(err) ELSE nil
RemoveReturn(k, err) ==
    IF err = ErrorItemNotFound THEN ErrKeyNotFound
    ELSE IF k.variant = "rich"
    THEN (IF err # nil THEN ErrDeleteFailed(err) ELSE nil)
    ELSE err

(* Keys *)

KeysQuery(k) ==
    [Service |-> k.service, Account |-> "", HasAccount |-> FALSE,
     MatchLimit |-> "All", ReturnData |-> FALSE, Context |-> NoContext]

KeysReturn(q) ==
    IF q.err # nil
    THEN [err |-> q.err, val |-> NoVal]
    ELSE [err |-> nil,
          val |-> Val(<<>>, 0, [idx \in DOMAIN q.results |-> q.results[idx].Account])]

-----------------------------------------------------------------------------
(* Configurations *)

Config(service, constraint, control, duration, sync, unlocked) ==
    [ServiceName |-> service,
     KeychainAccessConstraint |-> constraint,
     KeychainAccessControl |-> control,
     BioMetricsAllowableReuseDuration |-> duration,
     KeychainSynchronizable |-> sync,
     KeychainAccessibleWhenUnlocked |-> unlocked]

\* The configurations the backends of the lifecycle are opened with.
InitCfgs ==
    {[variant |-> "rich",
      cfg |-> Config("s1", "", <<"BiometryAny", "Or", "DevicePasscode">>,
                     0, TRUE, FALSE)],
     [variant |-> "legacy",
      cfg |-> Config("s1", "", <<>>, 5, TRUE, TRUE)],
     [variant |-> "rich",
      cfg |-> Config("s2", "AccessibleAfterFirstUnlock", <<>>, 5, FALSE, FALSE)]}

\* The configurations the opener is tried on.
ConstraintNames ==
    {"", "AccessibleWhenUnlocked", "AccessibleAfterFirstUnlock",
     "AccessibleAfterFirstUnlockThisDeviceOnly",
     "AccessibleWhenPasscodeSetThisDeviceOnly",
     "AccessibleWhenUnlockedThisDeviceOnly",
     "AccessibleAccessibleAlwaysThisDeviceOnly", "AccessibleAlways",
     "AccessibleSometimes"}
DeprecatedNames == {"AccessibleAccessibleAlwaysThisDeviceOnly", "AccessibleAlways"}
FactorNames == {"BiometryAny", "DevicePasscode", "Or", "Fingerprint"}
MaxFactors == 2
FactorLists == UNION {[1..n -> FactorNames] : n \in 0..MaxFactors}
Durations == {-1, 0, 5}
OpenCfgs ==
    {Config("s1", c, f, d, y, u) :
        c \in ConstraintNames, f \in FactorLists, d \in Durations,
        y \in BOOLEAN, u \in BOOLEAN}

-----------------------------------------------------------------------------
(* State *)

Idle == {t \in Callers : pc[t] = "idle"}

\* The locals of a caller that is not inside Set.
NoCur ==
    [b |-> "", item |-> NoItem, calls |-> <<>>, intr |-> FALSE,
     removed |-> FALSE, rewritten |-> FALSE, deleted |-> FALSE]


\* The record of a completed call.  alone: no other caller was inside a call
\* between this call's first step and its return.  removed, rewritten: for
\* Set, what other callers did to its record after its add was refused.
\* deleted: another caller deleted the record of Set's key during the call.
Entry(op, b, key, item, r, calls, alone, c) ==
    [op |-> op, b |-> b, key |-> key, item |-> item, err |-> r.err,
     val |-> r.val, calls |-> calls, alone |-> alone,
     removed |-> c.removed, rewritten |-> c.rewritten, deleted |-> c.deleted]

Push(e) == <<e>>

\* What a step of caller t (of an idle caller when t = "") on the record
\* (service, account) leaves in the locals of the other callers inside Set.
\* kind is "read", "write" or "delete".
Observed(t, kind, service, account) ==
    [u \in Callers |->
        IF u = t \/ pc[u] = "idle"
        THEN cur[u]
        ELSE LET same == /\ kcs[cur[u].b].service = service
                         /\ cur[u].item.Key = account
             IN  [cur[u] EXCEPT
                    !.intr = TRUE,
                    !.removed = @ \/ (kind = "delete" /\ same /\ pc[u] = "query"),
                    !.deleted = @ \/ (kind = "delete" /\ same),
                    !.rewritten = @ \/ (kind = "write" /\ same /\ cur[u].removed)]]

OthersIdle(t) == \A u \in Callers \ {t} : pc[u] = "idle"

CanBegin == nops < MaxCalls /\ Idle # {}

\* The backends are opened with two different configurations; the store is
\* empty, or holds a record an earlier run of backend k1 has written.
InitBackends ==
    {c \in [Backends -> InitCfgs] :
        /\ c["k1"].variant = "rich" /\ c["k1"].cfg.ServiceName = "s1"
        /\ c["k2"] # c["k1"]}

EarlierItem == CHOOSE item \in Items : item.Key = "a" /\ item.Data = "d1"

Init ==
    /\ cfgs \in InitBackends
    /\ kcs = [b \in Backends |-> opener(cfgs[b].variant, cfgs[b].cfg, TRUE, b).kc]
    /\ store \in {{}, {[SetItem(kcs["k1"], EarlierItem) EXCEPT !.ModificationDate = 1]}}
    /\ pc = [t \in Callers |-> "idle"]
    /\ cur = [t \in Callers |-> NoCur]
    /\ last = <<>>
    /\ nops = 0
    /\ opened = <<>>

-----------------------------------------------------------------------------
(* Lifecycle operations.  Get, GetMetadata, Remove and Keys make one call   *)
(* to the store and are one step each; Set makes up to three (AddItem,     *)
(* QueryItem, UpdateItem), one step each.                                   *)

Get(b, key) ==
    /\ CanBegin
    /\ LET k == kcs[b]
       IN  \E att \in SetAuthenticationContext(GetQuery(k, key),
                                                   k.authenticationContext) :
             IF att.err # nil /\ ChecksAttach(k)
             THEN /\ last' = Push(Entry("Get", b, key, NoItem,
                                  [err |-> att.err, val |-> Val(<<NoItem>>, 0, <<>>)],
                                  <<>>, OthersIdle(""), NoCur))
             ELSE \E q \in QueryItem(store, att.query) :
                    /\ last' = Push(Entry("Get", b, key, NoItem, GetReturn(key, q),
                                    <<NativeCall("QueryItem", k.service, key,
                                                 att.query.ReturnData,
                                                 att.query.Context, q.err,
                                              Len(q.results))>>,
                                    OthersIdle(""), NoCur))
    /\ cur' = Observed("", "read", kcs[b].service, key)
    /\ nops' = nops + 1
    /\ UNCHANGED <<store, kcs, cfgs, pc, opened>>

GetMetadata(b, key) ==
    /\ CanBegin
    /\ LET k == kcs[b]
       IN  \E att \in SetAuthenticationContext(GetMetadataQuery(k, key),
                                                   k.authenticationContext) :
             IF att.err # nil /\ ChecksAttach(k)
             THEN /\ last' = Push(Entry("GetMetadata", b, key, NoItem,
                                  [err |-> att.err, val |-> NoVal],
                                  <<>>, OthersIdle(""), NoCur))
             ELSE \E q \in QueryItem(store, att.query) :
                    /\ last' = Push(Entry("GetMetadata", b, key, NoItem,
                                    GetMetadataReturn(key, q),
                                    <<NativeCall("QueryItem", k.service, key,
                                                 att.query.ReturnData,
                                                 att.query.Context, q.err,
                                              Len(q.results))>>,
                                    OthersIdle(""), NoCur))
    /\ cur' = Observed("", "read", kcs[b].service, key)
    /\ nops' = nops + 1
    /\ UNCHANGED <<store, kcs, cfgs, pc, opened>>

Remove(b, key) ==
    /\ CanBegin
    /\ LET k == kcs[b]
       IN  \E d \in DeleteItem(store, RemoveItem(k, key)) :
             /\ store' = d.store
             /\ last' = Push(Entry("Remove", b, key, NoItem,
                             [err |-> RemoveReturn(k, d.err), val |-> NoVal],
                             <<NativeCall("DeleteItem", k.service, key, FALSE,
                                          NoContext, d.err, 0)>>,
                             OthersIdle(""), NoCur))
             /\ cur' = Observed("", IF d.err = nil THEN "delete" ELSE "read",
                                k.service, key)
    /\ nops' = nops + 1
    /\ UNCHANGED <<kcs, cfgs, pc, opened>>

Keys(b) ==
    /\ CanBegin
    /\ LET k == kcs[b]
       IN  \E att \in SetAuthenticationContext(KeysQuery(k),
                                                   k.authenticationContext) :
             IF att.err # nil /\ ChecksAttach(k)
             THEN /\ last' = Push(Entry("Keys", b, "", NoItem,
                                  [err |-> att.err, val |-> NoVal],
                                  <<>>, OthersIdle(""), NoCur))
             ELSE \E q \in QueryItem(store, att.query) :
                    /\ last' = Push(Entry("Keys", b, "", NoItem, KeysReturn(q),
                                    <<NativeCall("QueryItem", k.service, "",
                                                 att.query.ReturnData,
                                                 att.query.Context, q.err,
                                              Len(q.results))>>,
                                    OthersIdle(""), NoCur))
    /\ cur' = Observed("", "read", kcs[b].service, "")
    /\ nops' = nops + 1
    /\ UNCHANGED <<store, kcs, cfgs, pc, opened>>

\* Set up to the return of AddItem: it returns, or goes on into updateItem.
Set(t, b, item) ==
    /\ CanBegin
    /\ t = CHOOSE u \in Idle : TRUE
    /\ LET k == kcs[b]
           kcItem == SetItem(k, item)
       IN  \E a \in AddItem(store, kcItem) :
             LET call == NativeCall("AddItem", k.service, item.Key, FALSE,
                                    NoContext, a.err, 0)
                 wrote == IF a.err = nil THEN "write" ELSE "read"
             IN  IF IsDuplicate(a.err)
                    THEN /\ pc' = [pc EXCEPT ![t] = "query"]
                         /\ cur' = [Observed(t, "read", k.service, item.Key)
                                      EXCEPT ![t] = [NoCur EXCEPT !.b = b,
                                                                  !.item = item,
                                                                  !.calls = <<call>>]]
                         /\ UNCHANGED <<store, last>>
                    ELSE /\ store' = a.store
                         /\ last' = Push(Entry("Set", b, item.Key, item,
                                         [err |-> a.err, val |-> NoVal],
                                         <<call>>, OthersIdle(t), NoCur))
                         /\ cur' = Observed(t, wrote, k.service, item.Key)
                         /\ UNCHANGED pc
    /\ nops' = nops + 1
    /\ UNCHANGED <<kcs, cfgs, opened>>

\* updateItem up to the return of QueryItem
updateItemRequery(t) ==
    /\ pc[t] = "query"
    /\ LET c == cur[t]
           k == kcs[c.b]
           account == c.item.Key
           return(err, calls) ==
               /\ last' = Push(Entry("Set", c.b, account, c.item,
                               [err |-> err, val |-> NoVal],
                               calls, OthersIdle(t) /\ ~c.intr, c))
               /\ pc' = [pc EXCEPT ![t] = "idle"]
               /\ cur' = [Observed(t, "read", k.service, account)
                            EXCEPT ![t] = NoCur]
       IN  \E att \in SetAuthenticationContext(updateItemQuery(k, account),
                                                   k.authenticationContext) :
             IF att.err # nil /\ ChecksAttach(k)
             THEN return(att.err, c.calls)
             ELSE \E q \in QueryItem(store, att.query) :
                    LET calls == Append(c.calls,
                                   NativeCall("QueryItem", k.service, account,
                                              att.query.ReturnData,
                                              att.query.Context, q.err,
                                              Len(q.results)))
                        next == updateItemAfterQuery(q)
                    IN  IF next # "go on"
                           THEN return(next, calls)
                           ELSE /\ pc' = [pc EXCEPT ![t] = "update"]
                                /\ cur' = [Observed(t, "read", k.service, account)
                                             EXCEPT ![t] = [c EXCEPT !.calls = calls]]
                                /\ UNCHANGED last
    /\ UNCHANGED <<store, kcs, cfgs, nops, opened>>

\* updateItem from UpdateItem on, and the return of Set
updateItemUpdate(t) ==
    /\ pc[t] = "update"
    /\ LET c == cur[t]
           k == kcs[c.b]
           account == c.item.Key
       IN  \E u \in UpdateItem(store, updateItemQuery(k, account),
                                   updateItemPatch(c.item.Data)) :
             /\ store' = u.store
             /\ last' = Push(Entry("Set", c.b, account, c.item,
                             [err |-> updateItemReturn(u.err), val |-> NoVal],
                             Append(c.calls,
                                NativeCall("UpdateItem", k.service, account,
                                           FALSE, NoContext, u.err, 0)),
                             OthersIdle(t) /\ ~c.intr, c))
             /\ pc' = [pc EXCEPT ![t] = "idle"]
             /\ cur' = [Observed(t, IF u.err = nil THEN "write" ELSE "read",
                                 k.service, account)
                          EXCEPT ![t] = NoCur]
    /\ UNCHANGED <<kcs, cfgs, nops, opened>>

Next ==
    \/ \E b \in Backends, key \in KeyNames : Get(b, key)
    \/ \E b \in Backends, key \in KeyNames : GetMetadata(b, key)
    \/ \E b \in Backends, key \in KeyNames : Remove(b, key)
    \/ \E b \in Backends : Keys(b)
    \/ \E t \in Callers, b \in Backends, item \in Items : Set(t, b, item)
    \/ \E t \in Callers : updateItemRequery(t)
    \/ \E t \in Callers : updateItemUpdate(t)

Spec == Init /\ [][Next]_vars

\* A call inside Set goes on when the store returns: the native calls return.
SpecLive ==
    /\ Spec
    /\ \A t \in Callers : WF_vars(updateItemRequery(t))
    /\ \A t \in Callers : WF_vars(updateItemUpdate(t))

-----------------------------------------------------------------------------
(* Construction on its own: the opener applied to a configuration *)

Open(variant, cfg, canUse) ==
    /\ opened' = <<[variant |-> variant, cfg |-> cfg, canUse |-> canUse,
                    out |-> opener(variant, cfg, canUse, "k0")]>>
    /\ UNCHANGED <<store, kcs, cfgs, pc, cur, last, nops>>

\* one call of the opener per behaviour
NextOpen ==
    /\ opened = <<>>
    /\ \E variant \in Variants, cfg \in OpenCfgs, canUse \in BOOLEAN :
        Open(variant, cfg, canUse)

InitOpen ==
    /\ Init
    /\ store = {}
    /\ cfgs = CHOOSE c \in InitBackends : TRUE

SpecOpen == InitOpen /\ [][NextOpen]_vars

-----------------------------------------------------------------------------
(* Reading the record of the last completed call *)

Completed(op) == last # <<>> /\ last[1].op = op
ServiceOf(e) == kcs[e.b].service
RecordsOf(e) == MatchingAccount(store, ServiceOf(e), e.key)
Range(s) == {s[i] : i \in DOMAIN s}

\* A call of the store failed with an opaque error during the call e.
StoreFailed(e) == \E i \in DOMAIN e.calls : e.calls[i].err = ErrorOpaque
\* Attaching the authentication context failed during the call e.
AttachFailed(e) ==
    \/ e.err = ErrorAuthContext
    \/ \E i \in DOMAIN e.calls :
         e.calls[i].verb = "QueryItem" /\ e.calls[i].Context = NoContext
EnvFailed(e) == StoreFailed(e) \/ AttachFailed(e)

AddCalls(e) == {i \in DOMAIN e.calls : e.calls[i].verb = "AddItem"}

\* The step is a whole call of Get, GetMetadata, Remove or Keys.
AtomicStep == nops' = nops + 1 /\ pc' = pc /\ last' # <<>> /\ last'[1].op # "Set"

-----------------------------------------------------------------------------
(* Claims *)

\* C1: a successful Set(I) followed at once by Get(I.key) on the same backend,
\* nothing else in between and the store not failing, returns an item with
\* the data, label and description of I, whatever the store held before.
C1RoundTrip ==
    [][(/\ Completed("Set") /\ last[1].err = nil /\ last[1].alone
        /\ AtomicStep /\ last'[1].op = "Get" /\ last'[1].alone
        /\ last'[1].b = last[1].b /\ last'[1].key = last[1].item.Key
        /\ ~EnvFailed(last'[1]))
       => (/\ last'[1].err = nil
           /\ last'[1].val.item[1].Data = last[1].item.Data
           /\ last'[1].val.item[1].Label = last[1].item.Label
           /\ last'[1].val.item[1].Description = last[1].item.Description)]_vars

\* C2: a Set made with no concurrent operation and the store not failing, in
\* particular the second of two Sets of one key, returns success, never the
\* duplicate-entry error, and leaves exactly one record for (service, key).
C2IdempotentUpsert ==
    (Completed("Set") /\ last[1].alone /\ ~EnvFailed(last[1]))
    => (/\ last[1].err = nil
        /\ last[1].err # ErrorDuplicateItem
        /\ Cardinality(RecordsOf(last[1])) = 1)

\* C2 witness: a Set that found its key present and went through the update
\* path has returned success.
C2Witness ==
    /\ Completed("Set") /\ last[1].alone /\ ~EnvFailed(last[1])
    /\ Len(last[1].calls) = 3
    /\ last[1].calls[1].err = ErrorDuplicateItem
    /\ last[1].err = nil
    /\ Cardinality(RecordsOf(last[1])) = 1

\* C3 as stated: whenever a concurrent Remove of the key took effect between
\* Set's refused add and its re-query, Set returns an error, has issued one
\* add only, and the key is absent unless another operation wrote it.
C3LostUpdateOriginal ==
    (Completed("Set") /\ last[1].removed)
    => (/\ last[1].err # nil
        /\ Cardinality(AddCalls(last[1])) = 1
        /\ (~last[1].rewritten => RecordsOf(last[1]) = {}))

\* C3 amended: the same, provided no other operation re-created the record
\* between that Remove and the re-query.
C3LostUpdate ==
    (Completed("Set") /\ last[1].removed /\ ~last[1].rewritten)
    => (/\ last[1].err # nil
        /\ Cardinality(AddCalls(last[1])) = 1
        /\ RecordsOf(last[1]) = {})

\* C3 witness: a Set that lost its record to a concurrent Remove has returned.
C3Witness ==
    /\ Completed("Set") /\ last[1].removed /\ ~last[1].rewritten
    /\ last[1].err # nil
    /\ ~EnvFailed(last[1])

\* C4: the opener of the rich variant, on a platform that supports it, given
\* a deprecated constraint name returns an error and no backend, and
\* mapConstraint returns an error for the name.
C4DeprecatedRejected ==
    (/\ opened # <<>>
     /\ opened[1].variant = "rich"
     /\ opened[1].canUse
     /\ opened[1].cfg.KeychainAccessConstraint \in DeprecatedNames)
    => (/\ mapConstraint(opened[1].cfg.KeychainAccessConstraint).err # nil
        /\ opened[1].out.err # nil
        /\ opened[1].out.kc = NoBackend)

\* C5: a configuration with an unrecognized factor name, an unrecognized
\* constraint name or a negative reuse duration is refused with an error and
\* no backend; a zero duration with recognized names is accepted.
RecognizedConstraints == ConstraintNames \ (DeprecatedNames \cup {"AccessibleSometimes"})
InvalidCfg(cfg) ==
    \/ cfg.KeychainAccessConstraint \notin (ConstraintNames \ {"AccessibleSometimes"})
    \/ \E i \in DOMAIN cfg.KeychainAccessControl :
         cfg.KeychainAccessControl[i] \notin DOMAIN flagMap
    \/ cfg.BioMetricsAllowableReuseDuration < 0
C5ValidatesAtomically ==
    opened # <<>> =>
      LET o == opened[1]
      IN  /\ InvalidCfg(o.cfg) => (o.out.err # nil /\ o.out.kc = NoBackend)
          /\ (/\ ~InvalidCfg(o.cfg)
              /\ o.cfg.KeychainAccessConstraint \in RecognizedConstraints
              /\ o.cfg.BioMetricsAllowableReuseDuration = 0
              /\ o.canUse)
             => (o.out.err = nil /\ o.out.kc # NoBackend)

\* C6: a construction that ends in a configuration error has not created
\* the authentication context.
C6NoNativeCalls ==
    (/\ opened # <<>>
     /\ opened[1].out.err \notin {nil, ErrNotAvailable})
    => "CreateAuthenticationContext" \notin Range(opened[1].out.calls)

\* C7: Get and GetMetadata return KeyNotFound exactly when their query
\* reported not-found or returned no record without error; an opaque failure
\* of the query is returned as it is.
C7NotFoundOnly ==
    (Completed("Get") \/ Completed("GetMetadata")) =>
      LET e == last[1]
      IN  /\ e.err = ErrKeyNotFound
             <=> (/\ e.calls # <<>>
                  /\ \/ e.calls[1].err = ErrorItemNotFound
                     \/ e.calls[1].err = nil /\ e.calls[1].n = 0)
          /\ StoreFailed(e) => e.err = ErrorOpaque

\* C8: Get, GetMetadata and Remove of a key that has no record in the
\* backend's service return KeyNotFound and leave the store as it was (the
\* environment not failing).
C8NotFoundSymmetry ==
    [][(/\ AtomicStep
        /\ last'[1].op \in {"Get", "GetMetadata", "Remove"}
        /\ MatchingAccount(store, ServiceOf(last'[1]), last'[1].key) = {}
        /\ ~EnvFailed(last'[1]))
       => (last'[1].err = ErrKeyNotFound /\ store' = store)]_vars

\* C8 witness: a Remove of an absent key has returned KeyNotFound.
C8Witness ==
    /\ Completed("Remove")
    /\ ~EnvFailed(last[1])
    /\ RecordsOf(last[1]) = {}
    /\ last[1].err = ErrKeyNotFound

\* C9: a record created by Set carries the synchronizable marker exactly when
\* the backend's configuration enables synchronization and the item did not
\* opt out.
C9SyncOptOut ==
    (/\ Completed("Set") /\ last[1].err = nil
     /\ Len(last[1].calls) = 1)
    => \A r \in RecordsOf(last[1]) :
         r.Synchronizable
           = (/\ cfgs[last[1].b].cfg.KeychainSynchronizable
              /\ ~last[1].item.KeychainNotSynchronizable)

\* C10: Keys, called with no concurrent caller and the store not failing,
\* returns without error the keys present in the backend's service.
C10KeysListing ==
    (Completed("Keys") /\ last[1].alone /\ ~EnvFailed(last[1]))
    => (/\ last[1].err = nil
        /\ Range(last[1].val.keys)
             = {r.Account : r \in Matching(store, ServiceOf(last[1]))})

\* C11: mapStringsToFlags on a sequence of recognized names returns no error
\* and the union of exactly the bits of the names that occur, so every
\* sequence with the same names, in any order and with any repetition, gives
\* the same flags; on a sequence with an unrecognized name it returns an error
\* and the zero flag set.  The backend the opener returns carries these flags.
C11FlagComposition ==
    opened # <<>> =>
      LET strings == opened[1].cfg.KeychainAccessControl
          r == mapStringsToFlags(strings)
      IN  /\ Range(strings) \subseteq DOMAIN flagMap
             => (/\ r.err = nil
                 /\ r.val = UNION {flagMap[n] : n \in Range(strings)}
                 /\ \A other \in FactorLists :
                      Range(other) = Range(strings)
                        => mapStringsToFlags(other) = r)
          /\ ~(Range(strings) \subseteq DOMAIN flagMap)
             => (r.err # nil /\ r.val = NoFlags)
          /\ (opened[1].variant = "rich" /\ opened[1].out.err = nil)
             => opened[1].out.kc.accessControlFlags = r.val

\* C11 witness: a backend opened with the factors "DevicePasscode",
\* "BiometryAny" in that order carries exactly the two bits.
C11Witness ==
    /\ opened # <<>>
    /\ opened[1].variant = "rich"
    /\ opened[1].out.err = nil
    /\ opened[1].cfg.KeychainAccessControl = <<"DevicePasscode", "BiometryAny">>
    /\ opened[1].out.kc.accessControlFlags
         = AccessControlFlagsBiometryAny \cup AccessControlFlagsDevicePasscode

\* C12: GetMetadata issues its query with return-data disabled; when it
\* succeeds it returns the label, description and modification time of the
\* record with an empty secret payload, and it succeeds on an existing key
\* when the environment does not fail; when it fails it returns the empty
\* Metadata: no item, no modification time.
C12MetadataNoSecret ==
    Completed("GetMetadata") =>
      LET e == last[1]
      IN  /\ \A i \in DOMAIN e.calls : ~e.calls[i].ReturnData
          /\ e.err # nil => e.val = NoVal
          /\ e.err = nil =>
               /\ RecordsOf(e) # {}
               /\ \A r \in RecordsOf(e) :
                    /\ e.val.item[1].Data = NoData
                    /\ e.val.item[1].Key = r.Account
                    /\ e.val.item[1].Label = r.Label
                    /\ e.val.item[1].Description = r.Description
                    /\ e.val.modtime = r.ModificationDate
          /\ (RecordsOf(e) # {} /\ ~EnvFailed(e)) => e.err = nil

\* C12 witness: GetMetadata has succeeded on a record that holds secret data
\* and was written twice.
C12Witness ==
    /\ Completed("GetMetadata")
    /\ last[1].err = nil
    /\ last[1].val.item[1].Data = NoData
    /\ last[1].val.modtime = 2
    /\ \E r \in RecordsOf(last[1]) : r.Data = "d2" /\ r.Label = "l1"

\* C13: after a Set that returned success, with no concurrent caller, the
\* record of its key carries the access control flags and the protection
\* constraint that the backend of the call applies, whether Set created the
\* record or updated one that another backend of the service had created.
C13PolicyUniformity ==
    (Completed("Set") /\ last[1].err = nil /\ last[1].alone)
    => \A r \in RecordsOf(last[1]) :
         LET kcItem == SetItem(kcs[last[1].b], last[1].item)
         IN  /\ r.AccessControlFlags = kcItem.AccessControlFlags
             /\ r.Accessible = kcItem.Accessible

\* C14: the step in which Set's fallback succeeds replaces the secret data of
\* the existing record by the item's data and nothing else that a caller
\* sets: label, description, access policy and synchronizable marker keep
\* their values (the store stamps the modification time), and every record
\* of another key or another service is unchanged.
C14UpdateFrame ==
    [][\A t \in Callers :
         (pc[t] = "update" /\ pc'[t] = "idle" /\ last'[1].err = nil)
         => LET service == kcs[cur[t].b].service
                account == cur[t].item.Key
                old == MatchingAccount(store, service, account)
                new == MatchingAccount(store', service, account)
            IN  /\ store' \ new = store \ old
                /\ Cardinality(old) = 1
                /\ Cardinality(new) = 1
                /\ \A r \in old : \A n \in new :
                     n = [r EXCEPT !.Data = cur[t].item.Data,
                                   !.ModificationDate = n.ModificationDate]]_vars

\* C14 witness: a Set whose item has another label than the record it found
\* has succeeded through the fallback; the record has the new data and its
\* old label.
C14Witness ==
    /\ Completed("Set") /\ last[1].err = nil
    /\ Len(last[1].calls) = 3
    /\ \E r \in RecordsOf(last[1]) :
         /\ r.Data = last[1].item.Data
         /\ r.Label # last[1].item.Label
    /\ \E r \in store : r.Account # last[1].key

\* The enumerated value each recognized constraint name stands for; the empty
\* name stands for the device-local unlocked-only constraint.
NamedConstraint ==
    [AccessibleWhenUnlocked |-> AccessibleWhenUnlocked,
     AccessibleAfterFirstUnlock |-> AccessibleAfterFirstUnlock,
     AccessibleAfterFirstUnlockThisDeviceOnly |->
         AccessibleAfterFirstUnlockThisDeviceOnly,
     AccessibleWhenPasscodeSetThisDeviceOnly |->
         AccessibleWhenPasscodeSetThisDeviceOnly,
     AccessibleWhenUnlockedThisDeviceOnly |->
         AccessibleWhenUnlockedThisDeviceOnly]

\* C15: a backend of the rich variant constructed with the empty constraint
\* name has the constraint AccessibleWhenUnlockedThisDeviceOnly; every
\* constructed backend has the value its configuration names, never the
\* unset value and never a value of a name the configuration did not give.
C15DefaultConstraint ==
    (opened # <<>> /\ opened[1].variant = "rich" /\ opened[1].out.err = nil)
    => LET name == opened[1].cfg.KeychainAccessConstraint
           value == opened[1].out.kc.accessConstraint
       IN  /\ value # AccessibleDefault
           /\ name = "" => value = AccessibleWhenUnlockedThisDeviceOnly
           /\ name # "" => (/\ name \in DOMAIN NamedConstraint
                            /\ value = NamedConstraint[name])

\* The native calls of a Set, completed or in progress, are in the order of
\* the protocol: one add; a re-query only after the add was refused as a
\* duplicate; an update only after the re-query returned a record and no
\* error; nothing after the update.
SetProtocol(calls) ==
    /\ Len(calls) \in 1..3
    /\ calls[1].verb = "AddItem"
    /\ Len(calls) >= 2 =>
         /\ calls[1].err = ErrorDuplicateItem
         /\ calls[2].verb = "QueryItem"
    /\ Len(calls) = 3 =>
         /\ calls[2].err = nil /\ calls[2].n >= 1
         /\ calls[3].verb = "UpdateItem"

\* A failure of a native call of Set other than the refusal of a duplicate.
SetCallFailed(calls) ==
    \/ calls[1].err \notin {nil, ErrorDuplicateItem}
    \/ Len(calls) >= 2 /\ (calls[2].err # nil \/ calls[2].n = 0)
    \/ Len(calls) = 3 /\ calls[3].err # nil

\* C16: every Set follows the protocol above, each native call issued at most
\* once; a Set one of whose native calls failed returns an error; and a Set
\* that has begun returns, the native calls returning.
C16NoInternalRetry ==
    /\ [](/\ Completed("Set") =>
               /\ SetProtocol(last[1].calls)
               /\ SetCallFailed(last[1].calls) => last[1].err # nil
          /\ \A t \in Callers :
               /\ pc[t] = "query" =>
                    SetProtocol(cur[t].calls) /\ Len(cur[t].calls) = 1
               /\ pc[t] = "update" =>
                    SetProtocol(cur[t].calls) /\ Len(cur[t].calls) = 2)
    /\ \A t \in Callers : (pc[t] # "idle") ~> (pc[t] = "idle")

\* C16 witness: a Set has returned the error of its failed update, after one
\* add, one re-query and one update.
C16Witness ==
    /\ Completed("Set")
    /\ Len(last[1].calls) = 3
    /\ last[1].calls[3].err = ErrorOpaque
    /\ last[1].err = ErrUpdateFailed(ErrorOpaque)

\* C17: Keys on a service that holds no record returns the empty sequence and
\* no error, whether the query reported zero records or the not-found
\* signal; it returns an error only when the store or the attachment of the
\* authentication context failed.
C17KeysEmptyStore ==
    Completed("Keys") =>
      LET e == last[1]
      IN  /\ (Matching(store, ServiceOf(e)) = {} /\ ~EnvFailed(e))
             => (e.err = nil /\ e.val.keys = <<>>)
          /\ e.err # nil => EnvFailed(e)

\* C18: a call of Get, GetMetadata or Keys leaves the store as it was,
\* whatever it returns; a Remove that returns success found the record of
\* (service, key) present, deleted exactly that record, and left every other
\* record as it was.
C18ReadRemoveFrame ==
    [][AtomicStep =>
         LET e == last'[1]
             old == MatchingAccount(store, ServiceOf(e), e.key)
         IN  /\ e.op \in {"Get", "GetMetadata", "Keys"} => store' = store
             /\ (e.op = "Remove" /\ e.err = nil) =>
                  /\ Cardinality(old) = 1
                  /\ store' = store \ old
                  /\ MatchingAccount(store', ServiceOf(e), e.key) = {}]_vars

\* C18 witness: a Remove has succeeded and another record is still there.
C18Witness ==
    /\ Completed("Remove")
    /\ last[1].err = nil
    /\ RecordsOf(last[1]) = {}
    /\ store # {}

\* The native queries in a log of native calls.
Queries(calls) == {i \in DOMAIN calls : calls[i].verb = "QueryItem"}

\* C19: every query a backend has issued, in Get, GetMetadata, Keys or the
\* re-query of Set, carries the authentication context created for that
\* backend at construction: none was dispatched without it after the
\* attachment failed, and none carries the context of another backend.
C19AuthContextOnQueries ==
    /\ last # <<>> =>
         \A i \in Queries(last[1].calls) :
            last[1].calls[i].Context = kcs[last[1].b].authenticationContext
    /\ \A t \in Callers :
         pc[t] # "idle" =>
           \A i \in Queries(cur[t].calls) :
              cur[t].calls[i].Context = kcs[cur[t].b].authenticationContext

\* C20: the store never holds two records for one (service, key); and a Set
\* during which no other caller deleted the record of its key and the
\* environment did not fail returns success with exactly one record for its
\* key, however its native calls interleave with those of other callers,
\* in particular the second of two Sets of a key that was absent.
C20ConcurrentUpserts ==
    /\ \A b \in Backends, key \in KeyNames :
         Cardinality(MatchingAccount(store, kcs[b].service, key)) <= 1
    /\ (Completed("Set") /\ ~last[1].deleted /\ ~EnvFailed(last[1]))
       => (/\ last[1].err = nil
           /\ Cardinality(RecordsOf(last[1])) = 1)

\* C20 witness: key "b" has no record at the start; a Set of it, made while
\* another caller was inside a call, has found the record a Set before it
\* had created, and has returned success through the fallback.
C20Witness ==
    /\ Completed("Set")
    /\ last[1].key = "b"
    /\ ~last[1].alone
    /\ ~last[1].deleted
    /\ Len(last[1].calls) = 3
    /\ last[1].err = nil
    /\ Cardinality(RecordsOf(last[1])) = 1

====
